---- MODULE Spec2Model ----
(***************************************************************************)
(* Model of UR5_Robot (pythonsrc/ur5_robot/ur5_robot.py): a subclass of    *)
(* the OpenRAVE Robot that adds gripper helpers, controller attachment and *)
(* trajectory execution.                                                   *)
(*                                                                         *)
(* Joint values are Python floats.  They are modelled as exact rationals   *)
(* with denominator 255, written <<q, r>> for (q + r/255) * 1e-9 with      *)
(* 0 <= r < 255, so that the division by 255 of the gripper mapping is     *)
(* computed rather than assumed.                                           *)
(*                                                                         *)
(* Every method is an operator that returns what one call does: its        *)
(* outcome (normal return or the exception raised), its return value and   *)
(* the framework calls it makes, in order.  The action of a method records *)
(* them in call/outcome/result/log and lets the framework move the joints. *)
(***************************************************************************)
EXTENDS Integers, Sequences, FiniteSets, TLC

VARIABLES is_in_simulation, _has_gripper, multicontroller, dof, pre_dof,
          call, outcome, result, log

vars == <<is_in_simulation, _has_gripper, multicontroller, dof, pre_dof,
          call, outcome, result, log>>

----------------------------------------------------------------------------
(* Bounds of the model *)

\* number of joints of the robot; joint 3 is the gripper joint
NumDOF == 4
\* how far outside [0, 255] the tried gripper commands go
MaxOver == 1
\* how many commands next to each end of [0, 255] are tried
MaxEdge == 1

DOFs == 0 .. (NumDOF - 1)

----------------------------------------------------------------------------
(* Program constants, in units of 1e-9 *)

_OPENRAVE_GRIPPER_MAX_VALUE == 715584844
_ROBOT_GRIPPER_MAX_VALUE == 255
\* the tolerance 0.00001 of is_gripper_fully_closed
ClosedTolerance == 10000
\* the upper limit 0.87266444 named by the comment of set_gripper_openning
CommentModelLimit == 872664440
\* time.sleep(2)
SleepSeconds == 2

----------------------------------------------------------------------------
(* Float arithmetic on <<q, r>> = q + r/255 *)

Nano(n) == <<n, 0>>

Zero == Nano(0)

\* n / d for integers n >= 0 and d = 255
DivNat(n, d) == <<n \div d, n % d>>

\* x * k for an integer k >= 0
MulNat(x, k) == <<x[1] * k + ((x[2] * k) \div 255), (x[2] * k) % 255>>

\* x - y
Sub(x, y) ==
    IF x[2] >= y[2] THEN <<x[1] - y[1], x[2] - y[2]>>
    ELSE <<x[1] - y[1] - 1, x[2] - y[2] + 255>>

\* x <= y
Leq(x, y) == x[1] < y[1] \/ (x[1] = y[1] /\ x[2] <= y[2])

\* abs(x) of a float
AbsQ(x) ==
    IF x[1] >= 0 THEN x
    ELSE IF x[2] = 0 THEN <<-x[1], 0>>
    ELSE <<-x[1] - 1, 255 - x[2]>>

\* abs(value) of an integer command
AbsInt(v) == IF v < 0 THEN -v ELSE v

----------------------------------------------------------------------------
(* Values the calls are tried with *)

None == "None"

Kinbodies == {None, "mug"}

\* gripper commands: below, at both ends of, in the middle of and above [0, 255]
CommandValues ==
    ((0 - MaxOver) .. MaxEdge) \cup {127, 128}
        \cup ((_ROBOT_GRIPPER_MAX_VALUE - MaxEdge) .. (_ROBOT_GRIPPER_MAX_VALUE + MaxOver))

\* positions the fingers can come to rest at when the framework moves them
GripperValues ==
    { Zero, Nano(1),
      Nano(_OPENRAVE_GRIPPER_MAX_VALUE - ClosedTolerance - 1),
      Nano(_OPENRAVE_GRIPPER_MAX_VALUE - ClosedTolerance),
      Nano(_OPENRAVE_GRIPPER_MAX_VALUE + ClosedTolerance),
      Nano(_OPENRAVE_GRIPPER_MAX_VALUE + ClosedTolerance + 1) }

\* a trajectory is modelled by its last waypoint
Trajectories ==
    { [i \in DOFs |-> IF i = 3 THEN g ELSE Zero] : g \in {Zero, Nano(350000000)} }

SetValues == { Nano(_OPENRAVE_GRIPPER_MAX_VALUE) }

ControllerNames == { "ur5controller", "nosuchcontroller" }

\* the names RaveCreateController has a plugin for
KnownControllers == { "ur5controller" }

DofIndexSets == { {0, 1, 2}, {3} }

NoValues == [i \in {} |-> Zero]

NoTrajectory == NoValues

----------------------------------------------------------------------------
(* Framework calls, as recorded in the log of a call *)

Ev(op, values, body) ==
    [op |-> op, values |-> values, body |-> body, indices |-> {}, seconds |-> 0]

EvSetDesired(values) == Ev("SetDesired", values, None)
EvWaitForController == Ev("WaitForController", NoValues, None)
EvSleep == [Ev("sleep", NoValues, None) EXCEPT !.seconds = SleepSeconds]
EvSetDOFValues(values) == Ev("SetDOFValues", values, None)
EvRelease(kinbody) == Ev("Release", NoValues, kinbody)
EvReleaseFingers(target) == Ev("ReleaseFingers", NoValues, target)
EvCloseFingers == Ev("CloseFingers", NoValues, None)
EvSetPath(trajectory) == Ev("SetPath", trajectory, None)
EvRaveCreateController(name) == Ev("RaveCreateController", NoValues, name)
EvAttachController(name, dof_indices) ==
    [Ev("AttachController", NoValues, name) EXCEPT !.indices = dof_indices]

\* what a call does: how it ends, what it returns, the framework calls it made
Returns(value, events) == [outcome |-> "ok", result |-> value, log |-> events]
Raises(exception, events) == [outcome |-> exception, result |-> None, log |-> events]

GripperMissing == Raises("Exception", <<>>)

PyBool(b) == IF b THEN "True" ELSE "False"

----------------------------------------------------------------------------
(* The methods of UR5_Robot *)

is_gripper_fully_open ==
    IF ~_has_gripper THEN GripperMissing
    ELSE Returns(PyBool(dof[3] = Zero), <<>>)

\* is_gripper_fully_closed with the abs() of the comparison left out
is_gripper_fully_closed_noabs ==
    IF ~_has_gripper THEN GripperMissing
    ELSE Returns(PyBool(Leq(Sub(dof[3], Nano(_OPENRAVE_GRIPPER_MAX_VALUE)),
                            Nano(ClosedTolerance))), <<>>)

is_gripper_fully_closed ==
    IF ~_has_gripper THEN GripperMissing
    ELSE Returns(PyBool(Leq(AbsQ(Sub(dof[3], Nano(_OPENRAVE_GRIPPER_MAX_VALUE))),
                            Nano(ClosedTolerance))), <<>>)

attach_controller(name, dof_indices) ==
    LET created == name \in KnownControllers
    IN  IF created
        THEN IF ~multicontroller.exists
             THEN Raises("AttributeError", <<EvRaveCreateController(name)>>)
             ELSE Returns("True", <<EvRaveCreateController(name),
                                    EvAttachController(name, dof_indices)>>)
        ELSE Returns("False", <<EvRaveCreateController(name)>>)

\* the conversion of a command in 0..255 to a value of the gripper joint
model_value(value) ==
    MulNat(DivNat(_OPENRAVE_GRIPPER_MAX_VALUE, _ROBOT_GRIPPER_MAX_VALUE), AbsInt(value))

\* set_gripper_openning whose range check tests abs(value) > 255 only
set_gripper_openning_absguard(value) ==
    IF ~_has_gripper THEN GripperMissing
    ELSE IF AbsInt(value) > 255 THEN Raises("ValueError", <<>>)
    ELSE LET dof_values == [dof EXCEPT ![3] = model_value(value)]
         IN  Returns(None, <<EvSetDesired(dof_values), EvWaitForController, EvSleep>>)

\* set_gripper_openning that returns as soon as the controller is done
set_gripper_openning_nosleep(value) ==
    IF ~_has_gripper THEN GripperMissing
    ELSE IF value < 0 \/ value > 255 THEN Raises("ValueError", <<>>)
    ELSE LET dof_values == [dof EXCEPT ![3] = model_value(value)]
         IN  Returns(None, <<EvSetDesired(dof_values), EvWaitForController>>)

\* set_gripper_openning that builds the desired values from a zero vector
set_gripper_openning_zeros(value) ==
    IF ~_has_gripper THEN GripperMissing
    ELSE IF value < 0 \/ value > 255 THEN Raises("ValueError", <<>>)
    ELSE LET dof_values == [[i \in DOFs |-> Zero] EXCEPT ![3] = model_value(value)]
         IN  Returns(None, <<EvSetDesired(dof_values), EvWaitForController, EvSleep>>)

set_gripper_openning(value) ==
    IF ~_has_gripper THEN GripperMissing
    ELSE IF value < 0 \/ value > 255 THEN Raises("ValueError", <<>>)
    ELSE LET dof_values == [dof EXCEPT ![3] = model_value(value)]
         IN  Returns(None, <<EvSetDesired(dof_values), EvWaitForController, EvSleep>>)

\* the position a Python index denotes in a list of n elements
PyIndex(index, n) == IF index < 0 THEN index + n ELSE index

_set_dof_value(index, value) ==
    IF PyIndex(index, NumDOF) \notin DOFs THEN Raises("IndexError", <<>>)
    ELSE LET dof_values == [dof EXCEPT ![PyIndex(index, NumDOF)] = value]
         IN  Returns(None, <<EvSetDOFValues(dof_values)>>)

\* self.Release(kinbody) under "if kinbody is not None"
ReleaseIfGiven(kinbody) == IF kinbody # None THEN <<EvRelease(kinbody)>> ELSE <<>>

\* open_gripper without the check for the gripper
open_gripper_noguard(kinbody, execute) ==
    IF ~execute
    THEN Returns(None, _set_dof_value(3, Zero).log \o ReleaseIfGiven(kinbody))
    ELSE IF is_in_simulation
    THEN Returns(None, <<EvReleaseFingers(kinbody), EvWaitForController>>)
    ELSE LET r == set_gripper_openning(0)
         IN  IF r.outcome # "ok" THEN r
             ELSE Returns(None, r.log \o ReleaseIfGiven(kinbody))

\* open_gripper with the test of is_in_simulation inverted
open_gripper_swapped(kinbody, execute) ==
    IF ~_has_gripper THEN GripperMissing
    ELSE IF ~execute
    THEN Returns(None, _set_dof_value(3, Zero).log \o ReleaseIfGiven(kinbody))
    ELSE IF ~is_in_simulation
    THEN Returns(None, <<EvReleaseFingers(kinbody), EvWaitForController>>)
    ELSE LET r == set_gripper_openning(0)
         IN  IF r.outcome # "ok" THEN r
             ELSE Returns(None, r.log \o ReleaseIfGiven(kinbody))

open_gripper(kinbody, execute) ==
    IF ~_has_gripper THEN GripperMissing
    ELSE IF ~execute
    THEN Returns(None, _set_dof_value(3, Zero).log \o ReleaseIfGiven(kinbody))
    ELSE IF is_in_simulation
    THEN Returns(None, <<EvReleaseFingers(kinbody), EvWaitForController>>)
    ELSE LET r == set_gripper_openning(0)
         IN  IF r.outcome # "ok" THEN r
             ELSE Returns(None, r.log \o ReleaseIfGiven(kinbody))

\* close_gripper that closes to the limit named in the comment
close_gripper_commentlimit(execute) ==
    IF ~_has_gripper THEN GripperMissing
    ELSE IF ~execute
    THEN Returns(None, _set_dof_value(3, Nano(CommentModelLimit)).log)
    ELSE IF is_in_simulation
    THEN Returns(None, <<EvCloseFingers, EvWaitForController>>)
    ELSE set_gripper_openning(255)

close_gripper(execute) ==
    IF ~_has_gripper THEN GripperMissing
    ELSE IF ~execute
    THEN Returns(None, _set_dof_value(3, Nano(_OPENRAVE_GRIPPER_MAX_VALUE)).log)
    ELSE IF is_in_simulation
    THEN Returns(None, <<EvCloseFingers, EvWaitForController>>)
    ELSE set_gripper_openning(255)

\* execute_trajectory_and_wait_for_controller that sleeps before it waits
execute_trajectory_sleep_first(trajectory) ==
    Returns(None, <<EvSetPath(trajectory), EvSleep, EvWaitForController>>)

execute_trajectory_and_wait_for_controller(trajectory) ==
    Returns(None, <<EvSetPath(trajectory), EvWaitForController, EvSleep>>)

----------------------------------------------------------------------------
(* The framework: what the calls of a log do to the robot *)

Ops(events) == { events[i].op : i \in 1 .. Len(events) }

EventsOf(events, op) == { events[i] : i \in { j \in 1 .. Len(events) : events[j].op = op } }

\* the joint values the robot can have once the calls of events have returned
PossibleDOF(d, events) ==
    IF "SetDOFValues" \in Ops(events)
    THEN { e.values : e \in EventsOf(events, "SetDOFValues") }
    ELSE IF "SetDesired" \in Ops(events)
    THEN { e.values : e \in EventsOf(events, "SetDesired") } \cup {d}
    ELSE IF "SetPath" \in Ops(events)
    THEN { e.values : e \in EventsOf(events, "SetPath") } \cup {d}
    ELSE IF "ReleaseFingers" \in Ops(events) \/ "CloseFingers" \in Ops(events)
    THEN { [d EXCEPT ![3] = g] : g \in GripperValues }
    ELSE {d}

\* the multicontroller once the calls of events have returned
Attached(mc, events) ==
    [mc EXCEPT !.attached =
        @ \cup { <<e.body, e.indices>> : e \in EventsOf(events, "AttachController") }]

----------------------------------------------------------------------------
(* State machine *)

NoCall ==
    [name |-> "__init__", value |-> 0, kinbody |-> None, execute |-> TRUE,
     index |-> 0, setvalue |-> Zero, trajectory |-> NoTrajectory,
     controller |-> None, dof_indices |-> {}]

Init ==
    /\ is_in_simulation \in BOOLEAN
    /\ _has_gripper \in BOOLEAN
    /\ multicontroller = [exists |-> ~is_in_simulation, attached |-> {}]
    /\ dof = [i \in DOFs |-> Zero]
    /\ pre_dof = dof
    /\ call = NoCall
    /\ outcome = "ok"
    /\ result = None
    /\ log = <<>>

\* one call c of a method, which does r
Do(c, r) ==
    /\ call' = c
    /\ outcome' = r.outcome
    /\ result' = r.result
    /\ log' = r.log
    /\ pre_dof' = dof
    /\ dof' \in PossibleDOF(dof, r.log)
    /\ multicontroller' = Attached(multicontroller, r.log)
    /\ UNCHANGED <<is_in_simulation, _has_gripper>>

IsGripperFullyOpen ==
    Do([NoCall EXCEPT !.name = "is_gripper_fully_open"], is_gripper_fully_open)

IsGripperFullyClosed ==
    Do([NoCall EXCEPT !.name = "is_gripper_fully_closed"], is_gripper_fully_closed)

AttachController ==
    \E name \in ControllerNames, dof_indices \in DofIndexSets :
        Do([NoCall EXCEPT !.name = "attach_controller", !.controller = name,
                          !.dof_indices = dof_indices],
           attach_controller(name, dof_indices))

SetGripperOpenning ==
    \E value \in CommandValues :
        Do([NoCall EXCEPT !.name = "set_gripper_openning", !.value = value],
           set_gripper_openning(value))

SetDofValue ==
    \E index \in (0 - 1) .. NumDOF, value \in SetValues :
        Do([NoCall EXCEPT !.name = "_set_dof_value", !.index = index, !.setvalue = value],
           _set_dof_value(index, value))

OpenGripper ==
    \E kinbody \in Kinbodies, execute \in BOOLEAN :
        Do([NoCall EXCEPT !.name = "open_gripper", !.kinbody = kinbody, !.execute = execute],
           open_gripper(kinbody, execute))

CloseGripper ==
    \E execute \in BOOLEAN :
        Do([NoCall EXCEPT !.name = "close_gripper", !.execute = execute],
           close_gripper(execute))

ExecuteTrajectory ==
    \E trajectory \in Trajectories :
        Do([NoCall EXCEPT !.name = "execute_trajectory_and_wait_for_controller",
                          !.trajectory = trajectory],
           execute_trajectory_and_wait_for_controller(trajectory))

Next ==
    \/ IsGripperFullyOpen
    \/ IsGripperFullyClosed
    \/ AttachController
    \/ SetGripperOpenning
    \/ SetDofValue
    \/ OpenGripper
    \/ CloseGripper
    \/ ExecuteTrajectory

Spec == Init /\ [][Next]_vars

TypeOK ==
    /\ is_in_simulation \in BOOLEAN
    /\ _has_gripper \in BOOLEAN
    /\ DOMAIN dof = DOFs
    /\ \A i \in DOFs : dof[i][2] \in 0 .. 254
    /\ outcome \in {"ok", "Exception", "ValueError", "AttributeError", "IndexError"}
    /\ result \in {None, "True", "False"}

----------------------------------------------------------------------------
(* Vocabulary of the properties *)

Count(events, op) == Cardinality({ i \in 1 .. Len(events) : events[i].op = op })

\* the joint values of the one SetDesired of a log
DesiredOf(events) == (CHOOSE e \in EventsOf(events, "SetDesired") : TRUE).values

GripperCalls ==
    { "is_gripper_fully_open", "is_gripper_fully_closed", "set_gripper_openning",
      "open_gripper", "close_gripper" }

ControllerCommands == { "SetDesired", "SetPath", "ReleaseFingers", "CloseFingers" }

\* every controller command of the log is followed by a wait and then by the delay
WaitsThenSleeps(events) ==
    \A i \in 1 .. Len(events) :
        events[i].op \in ControllerCommands =>
            \E j \in (i + 1) .. Len(events), k \in (i + 2) .. Len(events) :
                /\ j < k
                /\ events[j].op = "WaitForController"
                /\ events[k] = EvSleep

OutOfBounds(value) == value < 0 \/ value > 255

Called(name) == call.name = name

----------------------------------------------------------------------------
(* C1 *)

\* C1: on a robot constructed without a gripper each of the five gripper
\* methods ends in an error and has no effect: no framework call at all (no
\* SetDesired, ReleaseFingers, CloseFingers, Release, sleep) and no joint moved.
C1_NoGripperFailsBeforeAnyEffect ==
    (~_has_gripper /\ call.name \in GripperCalls) =>
        /\ outcome = "Exception"
        /\ log = <<>>
        /\ dof = pre_dof

C1_Witness ==
    /\ ~_has_gripper
    /\ Called("open_gripper")
    /\ call.kinbody # None
    /\ ~call.execute
    /\ outcome = "Exception"
    /\ dof[3] # Zero

----------------------------------------------------------------------------
(* C2 *)

\* C2 as stated: set_gripper_openning raises ValueError for every value
\* outside [0, 255] in every robot state, without SetDesired and without
\* changing the joints; inside [0, 255] on a robot with a gripper it raises
\* nothing and issues exactly one SetDesired.
C2_Original ==
    Called("set_gripper_openning") =>
        /\ OutOfBounds(call.value) =>
              /\ outcome = "ValueError"
              /\ Count(log, "SetDesired") = 0
              /\ dof = pre_dof
        /\ (~OutOfBounds(call.value) /\ _has_gripper) =>
              /\ outcome = "ok"
              /\ Count(log, "SetDesired") = 1

\* C2 amended: the ValueError is raised on a robot with a gripper; without
\* a gripper the same call ends in the generic gripper Exception.  In both
\* cases no SetDesired is issued and the joints are unchanged.
C2_Amended ==
    Called("set_gripper_openning") =>
        /\ OutOfBounds(call.value) =>
              /\ outcome = (IF _has_gripper THEN "ValueError" ELSE "Exception")
              /\ Count(log, "SetDesired") = 0
              /\ dof = pre_dof
        /\ (~OutOfBounds(call.value) /\ _has_gripper) =>
              /\ outcome = "ok"
              /\ Count(log, "SetDesired") = 1

C2_Witness ==
    /\ _has_gripper
    /\ Called("set_gripper_openning")
    /\ call.value < 0
    /\ outcome = "ValueError"
    /\ dof[3] # Zero

----------------------------------------------------------------------------
(* C3 *)

\* C3: with a gripper and execute true, open_gripper and close_gripper take
\* exactly one path: in simulation ReleaseFingers(target=kinbody) resp.
\* CloseFingers and no SetDesired; on hardware one SetDesired whose gripper
\* joint is the value of command 0 resp. 255 and no ReleaseFingers/CloseFingers.
C3_DelegatesBySimulationFlag ==
    (_has_gripper /\ call.execute /\ (Called("open_gripper") \/ Called("close_gripper"))) =>
        /\ outcome = "ok"
        /\ Count(log, "SetDesired") + Count(log, "ReleaseFingers")
              + Count(log, "CloseFingers") = 1
        /\ is_in_simulation =>
              IF Called("open_gripper")
              THEN log[1] = EvReleaseFingers(call.kinbody)
              ELSE log[1] = EvCloseFingers
        /\ ~is_in_simulation =>
              /\ Count(log, "SetDesired") = 1
              /\ DesiredOf(log)[3] =
                    (IF Called("open_gripper") THEN Zero
                     ELSE Nano(_OPENRAVE_GRIPPER_MAX_VALUE))

C3_Witness ==
    /\ _has_gripper
    /\ ~is_in_simulation
    /\ Called("open_gripper")
    /\ call.execute
    /\ call.kinbody # None
    /\ Count(log, "SetDesired") = 1
    /\ pre_dof[3] # Zero
    /\ dof[3] = Zero

----------------------------------------------------------------------------
(* C4 *)

\* C4: execute_trajectory_and_wait_for_controller does SetPath(trajectory),
\* then WaitForController, then the 2 second sleep, once each and in this
\* order, and returns normally.
C4_SetPathWaitSleepInOrder ==
    Called("execute_trajectory_and_wait_for_controller") =>
        /\ outcome = "ok"
        /\ log = <<EvSetPath(call.trajectory), EvWaitForController, EvSleep>>
        /\ log[3].seconds = 2

C4_Witness ==
    /\ Called("execute_trajectory_and_wait_for_controller")
    /\ Len(log) = 3
    /\ dof = call.trajectory
    /\ dof # pre_dof

----------------------------------------------------------------------------
(* C5 *)

\* C5 as stated: every call that issues a controller command (SetDesired,
\* SetPath, ReleaseFingers, CloseFingers) waits for the controller and then
\* takes the fixed delay before it returns.
C5_Original ==
    outcome = "ok" => WaitsThenSleeps(log)

\* C5 amended: the calls that issue SetDesired or SetPath wait for the
\* controller and then take the fixed delay; open_gripper and close_gripper
\* in simulation (ReleaseFingers, CloseFingers) wait for the controller and
\* return without any delay.
C5_Amended ==
    outcome = "ok" =>
        /\ (Count(log, "SetDesired") + Count(log, "SetPath") > 0) => WaitsThenSleeps(log)
        /\ (Count(log, "ReleaseFingers") + Count(log, "CloseFingers") > 0) =>
              /\ log[2] = EvWaitForController
              /\ Len(log) = 2
              /\ Count(log, "sleep") = 0

C5_Witness ==
    /\ is_in_simulation
    /\ Called("close_gripper")
    /\ Count(log, "CloseFingers") = 1
    /\ Count(log, "sleep") = 0
    /\ dof[3] # pre_dof[3]

----------------------------------------------------------------------------
(* C6 *)

\* C6: with a gripper and execute false, open_gripper writes 0 and
\* close_gripper the model maximum to joint 3 by SetDOFValues, with no
\* controller command, wait or delay; open_gripper releases the kinbody
\* exactly when one was passed; right afterwards the two queries answer
\* open/not closed resp. closed/not open.
C6_DirectSetWithoutExecute ==
    (_has_gripper /\ ~call.execute /\ (Called("open_gripper") \/ Called("close_gripper"))) =>
        LET target == IF Called("open_gripper") THEN Zero
                      ELSE Nano(_OPENRAVE_GRIPPER_MAX_VALUE)
        IN  /\ outcome = "ok"
            /\ dof = [pre_dof EXCEPT ![3] = target]
            /\ log[1] = EvSetDOFValues(dof)
            /\ \A i \in 1 .. Len(log) :
                  log[i].op \notin (ControllerCommands \cup {"WaitForController", "sleep"})
            /\ IF Called("open_gripper") /\ call.kinbody # None
               THEN log = <<EvSetDOFValues(dof), EvRelease(call.kinbody)>>
               ELSE log = <<EvSetDOFValues(dof)>>
            /\ is_gripper_fully_open.result = PyBool(Called("open_gripper"))
            /\ is_gripper_fully_closed.result = PyBool(Called("close_gripper"))

C6_Witness ==
    /\ _has_gripper
    /\ is_in_simulation
    /\ Called("close_gripper")
    /\ ~call.execute
    /\ pre_dof[3] = Zero
    /\ is_gripper_fully_closed.result = "True"

----------------------------------------------------------------------------
(* C7 *)

\* C7 as stated: an accepted command v is sent as the gripper joint value
\* model_max * v / 255, which is 0 for 0, the model maximum for 255, strictly
\* increasing in v and inside [0, model_max], where the model maximum is the
\* upper limit 0.87266444 that the comment of the conversion names.
C7_Original ==
    (Called("set_gripper_openning") /\ outcome = "ok") =>
        LET target == DesiredOf(log)[3]
        IN  /\ target = MulNat(DivNat(_OPENRAVE_GRIPPER_MAX_VALUE, 255), call.value)
            /\ call.value = 0 => target = Zero
            /\ call.value = 255 => target = Nano(_OPENRAVE_GRIPPER_MAX_VALUE)
            /\ call.value = 255 => target = Nano(CommentModelLimit)
            /\ Leq(Zero, target) /\ Leq(target, Nano(_OPENRAVE_GRIPPER_MAX_VALUE))
            /\ \A u \in 0 .. 254 :
                  /\ Leq(model_value(u), model_value(u + 1))
                  /\ model_value(u) # model_value(u + 1)

----------------------------------------------------------------------------
(* C8 *)

\* C8: the vector set_gripper_openning hands to SetDesired is the robot's
\* joint vector of the time of the call at every index but 3, and the call
\* makes no SetDOFValues; a successful _set_dof_value(index, value) leaves the
\* robot with value at that index and every other joint as it was.
C8_OnlyTheAddressedJointChanges ==
    /\ (Called("set_gripper_openning") /\ outcome = "ok") =>
          /\ DOMAIN DesiredOf(log) = DOFs
          /\ \A i \in DOFs \ {3} : DesiredOf(log)[i] = pre_dof[i]
          /\ Count(log, "SetDOFValues") = 0
    /\ (Called("_set_dof_value") /\ outcome = "ok") =>
          /\ dof[PyIndex(call.index, NumDOF)] = call.setvalue
          /\ \A i \in DOFs \ {PyIndex(call.index, NumDOF)} : dof[i] = pre_dof[i]

C8_Witness ==
    /\ Called("set_gripper_openning")
    /\ outcome = "ok"
    /\ call.value = 128
    /\ pre_dof[0] # Zero
    /\ pre_dof[3] # Zero
    /\ dof = DesiredOf(log)

----------------------------------------------------------------------------
(* C9 *)

\* C9 as stated: on every robot the constructor builds, in simulation and on
\* hardware, attach_controller returns True exactly when the framework
\* created the controller, which is then attached to the multicontroller for
\* the given indices, and returns False without attaching otherwise.
C9_Original ==
    Called("attach_controller") =>
        /\ outcome = "ok"
        /\ result = PyBool(call.controller \in KnownControllers)
        /\ result = "True" =>
              /\ multicontroller.exists
              /\ <<call.controller, call.dof_indices>> \in multicontroller.attached
        /\ result = "False" => Count(log, "AttachController") = 0

----------------------------------------------------------------------------
(* C10 *)

\* C10: on a robot with a gripper the two queries never both answer true:
\* fully open only at joint 3 = 0, fully closed only within 0.00001 of the
\* model maximum, and both false in between.
C10_OpenAndClosedExclude ==
    _has_gripper =>
        LET open == is_gripper_fully_open.result = "True"
            closed == is_gripper_fully_closed.result = "True"
            low == Nano(_OPENRAVE_GRIPPER_MAX_VALUE - ClosedTolerance)
            high == Nano(_OPENRAVE_GRIPPER_MAX_VALUE + ClosedTolerance)
        IN  /\ ~(open /\ closed)
            /\ open => dof[3] = Zero
            /\ closed => (Leq(low, dof[3]) /\ Leq(dof[3], high))
            /\ (dof[3] # Zero /\ ~Leq(low, dof[3])) =>
                  /\ is_gripper_fully_open.result = "False"
                  /\ is_gripper_fully_closed.result = "False"

C10_Witness ==
    /\ _has_gripper
    /\ Called("set_gripper_openning")
    /\ call.value = 128
    /\ dof[3] = model_value(128)
    /\ is_gripper_fully_open.result = "False"
    /\ is_gripper_fully_closed.result = "False"

====
